---- MODULE Spec2Model ----
(***************************************************************************)
(* Model of the incident-reporting front-end:                              *)
(*   - the Session Manager (AuthProvider, src/src/contexts/AuthContext.tsx):*)
(*     its startup probe, its auth-state-change handler, loadProfile and   *)
(*     signUp, with the backend rows and credentials they touch;           *)
(*   - the Incident Browser (IncidentList, src/unnamed/part_000): its      *)
(*     fetch, its filter and what it renders.                              *)
(* Every await of the code is a suspension point: the code up to it is one *)
(* action, the code after it is the action taken when the backend answers. *)
(* The backend itself (Supabase) is the environment: it answers each call  *)
(* with its result or with an error, and emits notifications at will.      *)
(***************************************************************************)
EXTENDS Integers, Sequences, FiniteSets, TLC

VARIABLES
    \* AuthProvider's published state (useState, AuthContext.tsx:22-25)
    user, profile, session, loading,
    \* the getSession() promise of the effect: "pending" | "resolved"
    probe,
    \* whether the onAuthStateChange subscription is live, and whether the
    \* effect's cleanup has run
    subscribed, tornDown,
    \* loadProfile calls suspended at their await: [id, userId]
    pending, nextFetch,
    \* auth-state-change notifications the backend has emitted so far
    emitted,
    \* the backend: the profiles table, the registered credentials and the
    \* next user id it hands out
    profiles, authUsers, nextUserId,
    \* the calls of signUp, signIn, signOut and resetPassword in progress, one
    \* per caller, and how many were started
    calls, started,
    \* the notifications the backend still has to emit for sign-ins and
    \* sign-outs that succeeded, oldest first
    owed,
    \* IncidentList's state (useState, part_000:46-50; its `loading` is
    \* listLoading here), its pending fetch and what it last rendered
    incidents, filteredIncidents, listLoading, searchTerm, statusFilter,
    incidentFetch, view,
    \* history variables, written by the handlers but never read by them:
    \* the fetch the newest accepted event started (0: none), the profile
    \* that event calls for once known, the kind of the newest accepted
    \* event, and the step taken last
    latestFetch, expected, lastAccepted, last

authVars == <<user, profile, session, loading>>
managerVars == <<probe, subscribed, tornDown, pending, nextFetch, emitted,
                 latestFetch, expected, lastAccepted>>
signUpVars == <<authUsers, nextUserId, calls, started, owed>>
browserVars == <<incidents, filteredIncidents, listLoading, searchTerm,
                 statusFilter, incidentFetch, view>>
vars == <<user, profile, session, loading, probe, subscribed, tornDown,
          pending, nextFetch, emitted, profiles, authUsers, nextUserId,
          calls, started, owed, incidents, filteredIncidents, listLoading,
          searchTerm, statusFilter, incidentFetch, view,
          latestFetch, expected, lastAccepted, last>>

----------------------------------------------------------------------------
(* Bounds *)

\* notifications the backend emits in one run
MaxNotifs == 3
\* calls of signUp, signIn, signOut and resetPassword started in one run
MaxSignUps == 2

----------------------------------------------------------------------------
(* Values *)

\* JavaScript's null, for objects and for strings
Null == [null |-> TRUE]
NullStr == "<null>"
\* an optional string argument that was not passed
UndefinedStr == "<undefined>"

\* user identifiers of the sessions the backend may hand out
UserIds == {1, 2, 3}

\* a backend Session: an opaque bundle carrying its user
SessionOf(uid) == [user |-> [id |-> uid]]
Sessions == {SessionOf(uid) : uid \in UserIds}

\* session?.user ?? null
UserOrNull(s) == IF s = Null THEN Null ELSE s.user

\* a row of the profiles table
ProfileRow(id, email, fullName, phone, role, isDeleted, deletedAt) ==
    [id |-> id, email |-> email, full_name |-> fullName, phone |-> phone,
     role |-> role, is_deleted |-> isDeleted, deleted_at |-> deletedAt]

\* the backend at startup: user 1 is an authority, user 2 a citizen, user 3
\* has credentials but no profile row, the profile of d@x was soft-deleted
\* (its credentials are gone), and the profile of e@x is active although
\* its credentials were removed
InitialProfiles ==
    { ProfileRow(1, "a@x", "Ana", NullStr, "authority", FALSE, NullStr),
      ProfileRow(2, "b@x", "Beto", "111", "citizen", FALSE, NullStr),
      ProfileRow(4, "d@x", "Dora", "444", "citizen", TRUE, "t0"),
      ProfileRow(5, "e@x", "Eva", NullStr, "citizen", FALSE, NullStr) }
InitialAuthUsers ==
    { [id |-> 1, email |-> "a@x"], [id |-> 2, email |-> "b@x"],
      [id |-> 3, email |-> "c@x"] }
FirstNewUserId == 6

\* .maybeSingle(): the one matching row, null when none matches, an error
\* when several do
MaybeSingle(rows) ==
    IF rows = {} THEN [data |-> Null, error |-> Null]
    ELSE IF Cardinality(rows) = 1
         THEN [data |-> CHOOSE r \in rows : TRUE, error |-> Null]
         ELSE [data |-> Null, error |-> [message |-> "multiple rows"]]

\* from('profiles').select('*').eq('id', userId).maybeSingle()
SelectProfileById(table, userId) ==
    MaybeSingle({r \in table : r.id = userId})

\* what a backend call may answer: its result, an error with a message, or
\* an error without one
Responses == {"ok", "error", "errorNoMessage"}
ErrorOf(response) ==
    [message |-> IF response = "error" THEN "backend error" ELSE ""]

----------------------------------------------------------------------------
(* Session Manager *)

\* what the history variable `last` holds before any step
NoEvent == [kind |-> "init"]

InitAuth ==
    /\ user = Null
    /\ profile = Null
    /\ session = Null
    /\ loading = TRUE
    /\ probe = "pending"
    /\ subscribed = TRUE
    /\ tornDown = FALSE
    /\ pending = {}
    /\ nextFetch = 1
    /\ emitted = 0
    /\ latestFetch = 0
    /\ expected = [known |-> FALSE, profile |-> Null]
    /\ lastAccepted = "none"
    /\ last = NoEvent

\* loadProfile(userId) up to its await: the query is sent.  latestFetch and
\* expected record that the newest accepted event started this fetch and
\* that its answer is still to come.
LoadProfileStart(userId) ==
    /\ pending' = pending \cup {[id |-> nextFetch, userId |-> userId]}
    /\ nextFetch' = nextFetch + 1
    /\ latestFetch' = nextFetch
    /\ expected' = [known |-> FALSE, profile |-> Null]

\* ProbeResolve without the else branch's setLoading(false)
ProbeResolve_KeepsLoading(s) ==
    /\ probe = "pending"
    /\ probe' = "resolved"
    /\ session' = s
    /\ user' = UserOrNull(s)
    /\ IF UserOrNull(s) # Null
       THEN LoadProfileStart(s.user.id)
       ELSE UNCHANGED <<pending, nextFetch, latestFetch, expected>>
    /\ lastAccepted' = "probe"
    /\ last' = [kind |-> "probe"]
    /\ UNCHANGED <<profile, loading, subscribed, tornDown, emitted>>
    /\ UNCHANGED <<profiles, signUpVars, browserVars>>

\* supabase.auth.getSession().then(...) with the probed session s
ProbeResolve(s) ==
    /\ probe = "pending"
    /\ probe' = "resolved"
    /\ session' = s
    /\ user' = UserOrNull(s)
    /\ IF UserOrNull(s) # Null
       THEN /\ LoadProfileStart(s.user.id)
            /\ UNCHANGED loading
       ELSE /\ loading' = FALSE
            /\ UNCHANGED <<pending, nextFetch, latestFetch, expected>>
    /\ lastAccepted' = "probe"
    /\ last' = [kind |-> "probe"]
    /\ UNCHANGED <<profile, subscribed, tornDown, emitted>>
    /\ UNCHANGED <<profiles, signUpVars, browserVars>>

\* OnAuthStateChange without setUser
OnAuthStateChange_KeepsUser(s) ==
    /\ session' = s
    /\ UNCHANGED user
    /\ IF UserOrNull(s) # Null
       THEN /\ LoadProfileStart(s.user.id)
            /\ lastAccepted' = "session"
            /\ UNCHANGED <<profile, loading>>
       ELSE /\ profile' = Null
            /\ loading' = FALSE
            /\ latestFetch' = 0
            /\ expected' = [known |-> TRUE, profile |-> Null]
            /\ lastAccepted' = "nosession"
            /\ UNCHANGED <<pending, nextFetch>>
    /\ last' = [kind |-> "notification"]

\* OnAuthStateChange that shows the spinner again while the profile loads
OnAuthStateChange_SetsLoading(s) ==
    /\ session' = s
    /\ user' = UserOrNull(s)
    /\ IF UserOrNull(s) # Null
       THEN /\ LoadProfileStart(s.user.id)
            /\ lastAccepted' = "session"
            /\ loading' = TRUE
            /\ UNCHANGED profile
       ELSE /\ profile' = Null
            /\ loading' = FALSE
            /\ latestFetch' = 0
            /\ expected' = [known |-> TRUE, profile |-> Null]
            /\ lastAccepted' = "nosession"
            /\ UNCHANGED <<pending, nextFetch>>
    /\ last' = [kind |-> "notification"]

\* the handler given to onAuthStateChange, run with session s
OnAuthStateChange(s) ==
    /\ session' = s
    /\ user' = UserOrNull(s)
    /\ IF UserOrNull(s) # Null
       THEN /\ LoadProfileStart(s.user.id)
            /\ lastAccepted' = "session"
            /\ UNCHANGED <<profile, loading>>
       ELSE /\ profile' = Null
            /\ loading' = FALSE
            /\ latestFetch' = 0
            /\ expected' = [known |-> TRUE, profile |-> Null]
            /\ lastAccepted' = "nosession"
            /\ UNCHANGED <<pending, nextFetch>>
    /\ last' = [kind |-> "notification"]

\* the backend emits an auth-state-change notification; the handler runs
\* only while the subscription is live
AuthStateChange(s) ==
    /\ emitted < MaxNotifs
    /\ emitted' = emitted + 1
    /\ IF subscribed
       THEN OnAuthStateChange(s)
       ELSE /\ last' = [kind |-> "dropped"]
            /\ UNCHANGED <<user, profile, session, loading, pending,
                           nextFetch, latestFetch, expected, lastAccepted>>
    /\ UNCHANGED <<probe, subscribed, tornDown>>
    /\ UNCHANGED <<profiles, signUpVars, browserVars>>

\* LoadProfileDone with setLoading(false) at the end of the try block
\* instead of in finally
LoadProfileDone_NoFinally(f, response) ==
    /\ f \in pending
    /\ pending' = pending \ {f}
    /\ LET res == IF response = "ok"
                  THEN SelectProfileById(profiles, f.userId)
                  ELSE [data |-> Null, error |-> ErrorOf(response)]
       IN /\ IF res.error # Null
             THEN UNCHANGED <<profile, loading>>
             ELSE profile' = res.data /\ loading' = FALSE
          /\ expected' = IF f.id = latestFetch /\ res.error = Null
                         THEN [known |-> TRUE, profile |-> res.data]
                         ELSE expected
          /\ last' = [kind |-> IF res.error # Null THEN "loadError"
                               ELSE "loadOk",
                      current |-> /\ f.id = latestFetch
                                  /\ session # Null
                                  /\ session.user.id = f.userId]
    /\ UNCHANGED <<user, session, probe, subscribed, tornDown, nextFetch,
                   emitted, latestFetch, lastAccepted>>
    /\ UNCHANGED <<profiles, signUpVars, browserVars>>

\* loadProfile after its await: the query of fetch f answers.  The setters
\* are called whether or not the provider is still mounted.
LoadProfileDone(f, response) ==
    /\ f \in pending
    /\ pending' = pending \ {f}
    /\ LET res == IF response = "ok"
                  THEN SelectProfileById(profiles, f.userId)
                  ELSE [data |-> Null, error |-> ErrorOf(response)]
       IN /\ IF res.error # Null
             THEN UNCHANGED profile
             ELSE profile' = res.data
          /\ loading' = FALSE
          /\ expected' = IF f.id = latestFetch /\ res.error = Null
                         THEN [known |-> TRUE, profile |-> res.data]
                         ELSE expected
          /\ last' = [kind |-> IF res.error # Null THEN "loadError"
                               ELSE "loadOk",
                      current |-> /\ f.id = latestFetch
                                  /\ session # Null
                                  /\ session.user.id = f.userId]
    /\ UNCHANGED <<user, session, probe, subscribed, tornDown, nextFetch,
                   emitted, latestFetch, lastAccepted>>
    /\ UNCHANGED <<profiles, signUpVars, browserVars>>

\* Teardown with a cleanup that does not unsubscribe
Teardown_KeepsSubscription ==
    /\ ~tornDown
    /\ tornDown' = TRUE
    /\ last' = [kind |-> "teardown"]
    /\ UNCHANGED <<user, profile, session, loading, probe, subscribed,
                   pending, nextFetch, emitted, latestFetch, expected,
                   lastAccepted>>
    /\ UNCHANGED <<profiles, signUpVars, browserVars>>

\* the effect's cleanup: subscription.unsubscribe()
Teardown ==
    /\ ~tornDown
    /\ tornDown' = TRUE
    /\ subscribed' = FALSE
    /\ last' = [kind |-> "teardown"]
    /\ UNCHANGED <<user, profile, session, loading, probe, pending, nextFetch,
                   emitted, latestFetch, expected, lastAccepted>>
    /\ UNCHANGED <<profiles, signUpVars, browserVars>>

----------------------------------------------------------------------------
(* signUp and the backend calls it makes *)

\* the concurrent callers of signUp (two forms, two tabs)
Callers == {"c1", "c2"}

\* the arguments signUp is called with: an email with an active profile
\* (with and without credentials), one with a soft-deleted profile, one with
\* none; phone omitted, empty or given
Emails == {"b@x", "d@x", "e@x", "n@x"}
FullNames == {"Nora"}
Phones == {UndefinedStr, "", "555"}

\* the messages of the source, without their accents
DuplicateMessage == "Este correo electronico ya esta registrado"
SignUpDefaultMessage == "Error al registrarse"
SignInDefaultMessage == "Error al iniciar sesion"
SignOutDefaultMessage == "Error al cerrar sesion"
ResetDefaultMessage == "Error al enviar correo de recuperacion"

\* the default message of each operation's catch
DefaultMessage(kind) ==
    CASE kind = "signUp" -> SignUpDefaultMessage
      [] kind = "signIn" -> SignInDefaultMessage
      [] kind = "signOut" -> SignOutDefaultMessage
      [] kind = "resetPassword" -> ResetDefaultMessage

\* phone || null
PhoneOrNull(phone) ==
    IF phone = UndefinedStr \/ phone = "" THEN NullStr ELSE phone

\* Failure without the || <default>
Failure_NoDefault(error, default) ==
    [ok |-> FALSE, message |-> error.message]

\* catch (error) { throw new Error(error.message || <default>) }
Failure(error, default) ==
    [ok |-> FALSE,
     message |-> IF error.message # "" THEN error.message ELSE default]
Success == [ok |-> TRUE, message |-> ""]

IdleCall ==
    [kind |-> "none", pc |-> "idle", email |-> "", fullName |-> "",
     phone |-> UndefinedStr,
     existingProfile |-> Null, dataUser |-> Null, result |-> Null,
     muts |-> 0]

InitSignUp ==
    /\ authUsers = InitialAuthUsers
    /\ nextUserId = FirstNewUserId
    /\ calls = [c \in Callers |-> IdleCall]
    /\ started = 0
    /\ owed = <<>>

\* the call of caller c ends by throwing
Throw(c, error) ==
    calls' = [calls EXCEPT ![c].pc = "failed",
                           ![c].result =
                               Failure(error, DefaultMessage(calls[c].kind))]

\* signUp(email, password, fullName, phone) up to its first await: the
\* existence query is sent
SignUpStart(c, email, fullName, phone) ==
    /\ calls[c].pc \in {"idle", "done", "failed"}
    /\ started < MaxSignUps
    /\ started' = started + 1
    /\ calls' = [calls EXCEPT ![c] = [IdleCall EXCEPT !.kind = "signUp",
                                         !.pc = "check",
                                         !.email = email,
                                         !.fullName = fullName,
                                         !.phone = phone]]
    /\ last' = [kind |-> "signUpStart", call |-> c, response |-> "ok",
                error |-> Null]
    /\ UNCHANGED <<profiles, authUsers, nextUserId>>
    /\ UNCHANGED <<authVars, managerVars, browserVars, owed>>

\* from('profiles').select('id, is_deleted').eq('email', email).maybeSingle()
SelectProfileByEmail(table, email) ==
    LET res == MaybeSingle({r \in table : r.email = email})
    IN IF res.data = Null THEN res
       ELSE [data |-> [id |-> res.data.id, is_deleted |-> res.data.is_deleted],
             error |-> Null]

\* SignUpCheckDone without the check for an active profile
SignUpCheckDone_IgnoresActive(c, response) ==
    /\ calls[c].pc = "check"
    /\ LET res == IF response = "ok"
                  THEN SelectProfileByEmail(profiles, calls[c].email)
                  ELSE [data |-> Null, error |-> ErrorOf(response)]
       IN IF res.error # Null
          THEN Throw(c, res.error)
          ELSE calls' = [calls EXCEPT ![c].pc = "register",
                                      ![c].existingProfile = res.data]
    /\ last' = [kind |-> "signUpCheck", call |-> c, response |-> response,
                error |-> IF response = "ok"
                          THEN SelectProfileByEmail(profiles,
                                                    calls[c].email).error
                          ELSE ErrorOf(response)]
    /\ UNCHANGED <<profiles, authUsers, nextUserId, started>>
    /\ UNCHANGED <<authVars, managerVars, browserVars, owed>>

\* the existence query answers: fail on an error or on an active profile,
\* else send supabase.auth.signUp
SignUpCheckDone(c, response) ==
    /\ calls[c].pc = "check"
    /\ LET res == IF response = "ok"
                  THEN SelectProfileByEmail(profiles, calls[c].email)
                  ELSE [data |-> Null, error |-> ErrorOf(response)]
       IN IF res.error # Null
          THEN Throw(c, res.error)
          ELSE IF res.data # Null /\ ~res.data.is_deleted
          THEN Throw(c, [message |-> DuplicateMessage])
          ELSE calls' = [calls EXCEPT ![c].pc = "register",
                                      ![c].existingProfile = res.data]
    /\ last' = [kind |-> "signUpCheck", call |-> c, response |-> response,
                error |-> IF response = "ok"
                          THEN SelectProfileByEmail(profiles,
                                                    calls[c].email).error
                          ELSE ErrorOf(response)]
    /\ UNCHANGED <<profiles, authUsers, nextUserId, started>>
    /\ UNCHANGED <<authVars, managerVars, browserVars, owed>>

\* supabase.auth.signUp({email, password}) at the backend: an email that
\* already has credentials is refused, else a user with a new id is
\* registered and returned
AuthSignUp(users, nextId, email, response) ==
    IF response # "ok"
    THEN [user |-> Null, error |-> ErrorOf(response), users |-> users,
          nextId |-> nextId]
    ELSE IF \E u \in users : u.email = email
    THEN [user |-> Null, error |-> [message |-> "User already registered"],
          users |-> users, nextId |-> nextId]
    ELSE [user |-> [id |-> nextId], error |-> Null,
          users |-> users \cup {[id |-> nextId, email |-> email]},
          nextId |-> nextId + 1]

\* supabase.auth.signUp answers: fail on an error, else send the update of
\* the soft-deleted profile or the insert of a new one.  The branch for an
\* answer without error and without user follows the code's if (data.user);
\* AuthSignUp never gives that answer.
SignUpRegisterDone(c, response) ==
    /\ calls[c].pc = "register"
    /\ LET res == AuthSignUp(authUsers, nextUserId, calls[c].email, response)
           existing == calls[c].existingProfile
       IN /\ authUsers' = res.users
          /\ nextUserId' = res.nextId
          /\ IF res.error # Null
             THEN Throw(c, res.error)
             ELSE IF res.user # Null
             THEN calls' = [calls EXCEPT
                     ![c].pc = IF existing # Null /\ existing.is_deleted
                               THEN "update" ELSE "insert",
                     ![c].dataUser = res.user,
                     ![c].muts = @ + 1]
             ELSE calls' = [calls EXCEPT ![c].pc = "done",
                                         ![c].result = Success]
          /\ last' = [kind |-> "signUpRegister", call |-> c,
                      response |-> response, error |-> res.error]
    /\ UNCHANGED <<profiles, started>>
    /\ UNCHANGED <<authVars, managerVars, browserVars, owed>>

\* UpdateProfile without deleted_at: null in the update
UpdateProfile_KeepsDeletedAt(table, id, fullName, phone) ==
    { IF r.id = id
      THEN [r EXCEPT !.full_name = fullName, !.phone = PhoneOrNull(phone),
                     !.is_deleted = FALSE]
      ELSE r : r \in table }

\* from('profiles').update({full_name, phone, is_deleted: false,
\* deleted_at: null}).eq('id', id) at the backend
UpdateProfile(table, id, fullName, phone) ==
    { IF r.id = id
      THEN [r EXCEPT !.full_name = fullName, !.phone = PhoneOrNull(phone),
                     !.is_deleted = FALSE, !.deleted_at = NullStr]
      ELSE r : r \in table }

\* the update of the soft-deleted profile answers
SignUpUpdateDone(c, response) ==
    /\ calls[c].pc = "update"
    /\ IF response # "ok"
       THEN /\ Throw(c, ErrorOf(response))
            /\ UNCHANGED profiles
       ELSE /\ profiles' = UpdateProfile(profiles, calls[c].existingProfile.id,
                                         calls[c].fullName, calls[c].phone)
            /\ calls' = [calls EXCEPT ![c].pc = "done",
                                      ![c].result = Success,
                                      ![c].muts = @ + 1]
    /\ last' = [kind |-> "signUpUpdate", call |-> c, response |-> response,
                error |-> IF response # "ok" THEN ErrorOf(response)
                          ELSE Null]
    /\ UNCHANGED <<authUsers, nextUserId, started>>
    /\ UNCHANGED <<authVars, managerVars, browserVars, owed>>

\* from('profiles').insert({id, email, full_name, phone, role: 'citizen'})
\* at the backend: the id is the primary key, the soft-delete columns take
\* their defaults
InsertProfile(table, id, email, fullName, phone) ==
    IF \E r \in table : r.id = id
    THEN [table |-> table, error |-> [message |-> "duplicate key"]]
    ELSE [table |-> table \cup
                    {ProfileRow(id, email, fullName, PhoneOrNull(phone),
                                "citizen", FALSE, NullStr)},
          error |-> Null]

\* the insert of the new profile answers
SignUpInsertDone(c, response) ==
    /\ calls[c].pc = "insert"
    /\ LET res == IF response = "ok"
                  THEN InsertProfile(profiles, calls[c].dataUser.id,
                                     calls[c].email, calls[c].fullName,
                                     calls[c].phone)
                  ELSE [table |-> profiles, error |-> ErrorOf(response)]
       IN /\ profiles' = res.table
          /\ IF res.error # Null
             THEN Throw(c, res.error)
             ELSE calls' = [calls EXCEPT ![c].pc = "done",
                                         ![c].result = Success,
                                         ![c].muts = @ + 1]
          /\ last' = [kind |-> "signUpInsert", call |-> c,
                      response |-> response, error |-> res.error]
    /\ UNCHANGED <<authUsers, nextUserId, started>>
    /\ UNCHANGED <<authVars, managerVars, browserVars, owed>>


\* supabase.auth.signInWithPassword({email, password}) at the backend: an
\* email without credentials is refused, else a session of the email's user
\* is opened
AuthSignIn(users, email, response) ==
    IF response # "ok"
    THEN [session |-> Null, error |-> ErrorOf(response)]
    ELSE IF ~ \E u \in users : u.email = email
    THEN [session |-> Null,
          error |-> [message |-> "Invalid login credentials"]]
    ELSE [session |-> SessionOf((CHOOSE u \in users : u.email = email).id),
          error |-> Null]

\* signIn(email, password) up to its await
SignInStart(c, email) ==
    /\ calls[c].pc \in {"idle", "done", "failed"}
    /\ started < MaxSignUps
    /\ started' = started + 1
    /\ calls' = [calls EXCEPT ![c] = [IdleCall EXCEPT !.kind = "signIn",
                                         !.pc = "signIn",
                                         !.email = email]]
    /\ last' = [kind |-> "signInStart", call |-> c, response |-> "ok",
                error |-> Null]
    /\ UNCHANGED <<profiles, authUsers, nextUserId>>
    /\ UNCHANGED <<authVars, managerVars, browserVars, owed>>

\* supabase.auth.signInWithPassword answers: fail on an error, else return;
\* the backend owes the subscribers a notification with the new session
SignInDone(c, response) ==
    /\ calls[c].pc = "signIn"
    /\ LET res == AuthSignIn(authUsers, calls[c].email, response)
       IN /\ IF res.error # Null
             THEN /\ Throw(c, res.error)
                  /\ UNCHANGED owed
             ELSE /\ calls' = [calls EXCEPT ![c].pc = "done",
                                            ![c].result = Success]
                  /\ owed' = Append(owed, res.session)
          /\ last' = [kind |-> "signInDone", call |-> c,
                      response |-> response, error |-> res.error]
    /\ UNCHANGED <<profiles, authUsers, nextUserId, started>>
    /\ UNCHANGED <<authVars, managerVars, browserVars>>

\* signOut() up to its await
SignOutStart(c) ==
    /\ calls[c].pc \in {"idle", "done", "failed"}
    /\ started < MaxSignUps
    /\ started' = started + 1
    /\ calls' = [calls EXCEPT ![c] = [IdleCall EXCEPT !.kind = "signOut",
                                         !.pc = "signOut"]]
    /\ last' = [kind |-> "signOutStart", call |-> c, response |-> "ok",
                error |-> Null]
    /\ UNCHANGED <<profiles, authUsers, nextUserId>>
    /\ UNCHANGED <<authVars, managerVars, browserVars, owed>>

\* SignOutDone that clears the published state itself on success
SignOutDone_ClearsState(c, response) ==
    /\ calls[c].pc = "signOut"
    /\ IF response # "ok"
       THEN /\ Throw(c, ErrorOf(response))
            /\ UNCHANGED <<owed, authVars>>
       ELSE /\ calls' = [calls EXCEPT ![c].pc = "done",
                                      ![c].result = Success]
            /\ owed' = Append(owed, Null)
            /\ session' = Null
            /\ user' = Null
            /\ profile' = Null
            /\ loading' = FALSE
    /\ last' = [kind |-> "signOutDone", call |-> c, response |-> response,
                error |-> IF response # "ok" THEN ErrorOf(response)
                          ELSE Null]
    /\ UNCHANGED <<profiles, authUsers, nextUserId, started>>
    /\ UNCHANGED <<managerVars, browserVars>>

\* supabase.auth.signOut answers: fail on an error, else return; the backend
\* owes the subscribers a notification without session
SignOutDone(c, response) ==
    /\ calls[c].pc = "signOut"
    /\ IF response # "ok"
       THEN /\ Throw(c, ErrorOf(response))
            /\ UNCHANGED owed
       ELSE /\ calls' = [calls EXCEPT ![c].pc = "done",
                                      ![c].result = Success]
            /\ owed' = Append(owed, Null)
    /\ last' = [kind |-> "signOutDone", call |-> c, response |-> response,
                error |-> IF response # "ok" THEN ErrorOf(response)
                          ELSE Null]
    /\ UNCHANGED <<profiles, authUsers, nextUserId, started>>
    /\ UNCHANGED <<authVars, managerVars, browserVars>>

\* resetPassword(email) up to its await
ResetPasswordStart(c, email) ==
    /\ calls[c].pc \in {"idle", "done", "failed"}
    /\ started < MaxSignUps
    /\ started' = started + 1
    /\ calls' = [calls EXCEPT ![c] = [IdleCall EXCEPT
                                         !.kind = "resetPassword",
                                         !.pc = "resetPassword",
                                         !.email = email]]
    /\ last' = [kind |-> "resetPasswordStart", call |-> c,
                response |-> "ok", error |-> Null]
    /\ UNCHANGED <<profiles, authUsers, nextUserId>>
    /\ UNCHANGED <<authVars, managerVars, browserVars, owed>>

\* supabase.auth.resetPasswordForEmail answers: fail on an error, else
\* return
ResetPasswordDone(c, response) ==
    /\ calls[c].pc = "resetPassword"
    /\ IF response # "ok"
       THEN Throw(c, ErrorOf(response))
       ELSE calls' = [calls EXCEPT ![c].pc = "done",
                                   ![c].result = Success]
    /\ last' = [kind |-> "resetPasswordDone", call |-> c,
                response |-> response,
                error |-> IF response # "ok" THEN ErrorOf(response)
                          ELSE Null]
    /\ UNCHANGED <<profiles, authUsers, nextUserId, started>>
    /\ UNCHANGED <<authVars, managerVars, browserVars, owed>>

\* the backend emits the oldest notification it owes; the handler runs only
\* while the subscription is live
DeliverNotification ==
    /\ owed # <<>>
    /\ owed' = Tail(owed)
    /\ emitted' = emitted + 1
    /\ IF subscribed
       THEN OnAuthStateChange(Head(owed))
       ELSE /\ last' = [kind |-> "dropped"]
            /\ UNCHANGED <<user, profile, session, loading, pending,
                           nextFetch, latestFetch, expected, lastAccepted>>
    /\ UNCHANGED <<probe, subscribed, tornDown>>
    /\ UNCHANGED <<profiles, authUsers, nextUserId, calls, started,
                   browserVars>>

----------------------------------------------------------------------------
(* Incident Browser *)

\* Text is a sequence of characters; NullText is an absent (null) text
NullText == <<"<null>">>

\* String.prototype.toLowerCase, character by character
LowerChar(ch) ==
    CASE ch = "A" -> "a"
      [] ch = "B" -> "b"
      [] OTHER -> ch
ToLowerCase(s) == [i \in 1..Len(s) |-> LowerChar(s[i])]

\* String.prototype.includes: t occurs in s as a contiguous run
Includes(s, t) ==
    \E k \in 0..(Len(s) - Len(t)) : SubSeq(s, k + 1, k + Len(t)) = t

\* a row of the incidents query: the incident with its reporter's profile
\* joined in (profiles), which the join may leave null
IncidentRow(id, title, description, address, status, createdAt, reporter) ==
    [id |-> id, title |-> title, description |-> description,
     address |-> address, status |-> status, created_at |-> createdAt,
     profiles |-> reporter]

ReporterBeto == ProfileRow(2, "b@x", "Beto", "111", "citizen", FALSE, NullStr)
ReporterAna == ProfileRow(1, "a@x", "Ana", NullStr, "authority", FALSE, NullStr)

IncidentA ==
    IncidentRow("i1", <<"B", "a">>, <<"a", "b">>, NullText, "pending", 3,
                ReporterBeto)
IncidentB ==
    IncidentRow("i2", <<"a">>, <<"b", "b">>, <<"A", "b">>, "resolved", 2,
                Null)
IncidentC ==
    IncidentRow("i3", <<"b">>, <<"b">>, <<"a">>, "pending", 1, ReporterAna)

IncidentD ==
    IncidentRow("i4", <<"b">>, <<"B">>, NullText, "in_progress", 2, Null)
IncidentE ==
    IncidentRow("i5", <<"b">>, <<"b">>, <<"b", "A", "B">>, "pending", 1,
                ReporterBeto)

\* what the incidents query may return as data: rows, newest first as it
\* orders them, or null
IncidentLists ==
    { <<>>, <<IncidentB>>, <<IncidentA, IncidentC>>,
      <<IncidentA, IncidentB, IncidentC>> }
IncidentResults == {Null} \cup {[rows |-> l] : l \in IncidentLists}

\* incidents loaded in one run of the filter
MaxListLen == 3

\* the rows the filter may be given: any rows of the table, each once, newest
\* first, rows of one age in either order
IncidentPool == {IncidentA, IncidentB, IncidentC, IncidentD, IncidentE}
FilterInputs ==
    {l \in UNION {[1..n -> IncidentPool] : n \in 0..MaxListLen} :
        \A i, j \in 1..Len(l) :
            i < j => (l[i].id # l[j].id /\ l[i].created_at >= l[j].created_at)}

\* data || []
RowsOrEmpty(data) == IF data = Null THEN <<>> ELSE data.rows

SearchTerms == { <<>>, <<"a">>, <<"A", "B">>, <<"b", "b">> }
StatusFilters == {"all", "pending", "in_progress", "resolved", "rejected"}

\* the profiles the Session Manager may publish to the browser
PublishedProfiles == {Null} \cup {r \in InitialProfiles : ~r.is_deleted}

\* MatchesSearch without toLowerCase
MatchesSearch_CaseSensitive(incident, term) ==
    \/ Includes(incident.title, term)
    \/ Includes(incident.description, term)
    \/ /\ incident.address # NullText
       /\ Includes(incident.address, term)

\* MatchesSearch in which an absent address matches any term
MatchesSearch_NullAddressMatches(incident, term) ==
    \/ Includes(ToLowerCase(incident.title), ToLowerCase(term))
    \/ Includes(ToLowerCase(incident.description), ToLowerCase(term))
    \/ incident.address = NullText
    \/ Includes(ToLowerCase(incident.address), ToLowerCase(term))

\* the text predicate of filterIncidents
MatchesSearch(incident, term) ==
    \/ Includes(ToLowerCase(incident.title), ToLowerCase(term))
    \/ Includes(ToLowerCase(incident.description), ToLowerCase(term))
    \/ /\ incident.address # NullText
       /\ Includes(ToLowerCase(incident.address), ToLowerCase(term))

\* if (searchTerm) { filtered = filtered.filter(<text predicate>) }
FilterBySearch(list, term) ==
    IF term # <<>>
    THEN SelectSeq(list, LAMBDA i : MatchesSearch(i, term))
    ELSE list

\* FilterByStatus that keeps only the first incident of the status
FilterByStatus_FirstOnly(list, status) ==
    IF status # "all"
    THEN LET kept == SelectSeq(list, LAMBDA i : i.status = status)
         IN IF kept = <<>> THEN <<>> ELSE <<Head(kept)>>
    ELSE list

\* if (statusFilter !== 'all') { filtered = filtered.filter(<status>) }
FilterByStatus(list, status) ==
    IF status # "all"
    THEN SelectSeq(list, LAMBDA i : i.status = status)
    ELSE list

\* filterIncidents: the value it passes to setFilteredIncidents
FilterIncidents(list, term, status) ==
    FilterByStatus(FilterBySearch(list, term), status)

\* the reporter line of a card when it is not rendered
Hidden == "<hidden>"

\* Render with the reporter line shown to any signed-in viewer
Render_AnyViewer(viewer, filtered, isLoading) ==
    IF isLoading THEN [kind |-> "spinner"]
    ELSE IF Len(filtered) = 0 THEN [kind |-> "empty"]
    ELSE [kind |-> "list",
          cards |-> [i \in 1..Len(filtered) |->
              [id |-> filtered[i].id,
               reporter |->
                  IF viewer # Null /\ filtered[i].profiles # Null
                  THEN filtered[i].profiles.full_name
                  ELSE Hidden]]]

\* what IncidentList returns: the spinner, the empty state, or one card per
\* filtered incident with the reporter line only for an authority
Render(viewer, filtered, isLoading) ==
    IF isLoading THEN [kind |-> "spinner"]
    ELSE IF Len(filtered) = 0 THEN [kind |-> "empty"]
    ELSE [kind |-> "list",
          cards |-> [i \in 1..Len(filtered) |->
              [id |-> filtered[i].id,
               reporter |->
                  IF /\ viewer # Null
                     /\ viewer.role = "authority"
                     /\ filtered[i].profiles # Null
                  THEN filtered[i].profiles.full_name
                  ELSE Hidden]]]

InitBrowser ==
    /\ incidents = <<>>
    /\ filteredIncidents = <<>>
    /\ listLoading = TRUE
    /\ searchTerm = <<>>
    /\ statusFilter = "all"
    /\ incidentFetch = "pending"
    /\ view = [kind |-> "spinner"]

\* the browser after loadIncidents has stored the rows of a successful
\* query and the filter effect and the render have run
InitFilter ==
    /\ incidents \in FilterInputs
    /\ listLoading = FALSE
    /\ searchTerm = <<>>
    /\ statusFilter = "all"
    /\ filteredIncidents = FilterIncidents(incidents, searchTerm,
                                           statusFilter)
    /\ incidentFetch = "done"
    /\ view = Render(Null, filteredIncidents, listLoading)

\* LoadIncidentsDone with setLoading(false) at the end of the try block
\* instead of in finally
LoadIncidentsDone_NoFinally(response, data) ==
    /\ incidentFetch = "pending"
    /\ incidentFetch' = "done"
    /\ incidents' = IF response = "ok" THEN RowsOrEmpty(data) ELSE incidents
    /\ listLoading' = IF response = "ok" THEN FALSE ELSE listLoading
    /\ filteredIncidents' = FilterIncidents(incidents', searchTerm,
                                            statusFilter)
    /\ view' = Render(profile, filteredIncidents', listLoading')
    /\ last' = [kind |-> IF response = "ok" THEN "incidentsOk"
                         ELSE "incidentsError"]
    /\ UNCHANGED <<searchTerm, statusFilter>>
    /\ UNCHANGED <<authVars, managerVars, profiles, signUpVars>>

\* loadIncidents after its await: the incidents query answers with data or
\* with an error; the filter effect and the render follow
LoadIncidentsDone(response, data) ==
    /\ incidentFetch = "pending"
    /\ incidentFetch' = "done"
    /\ incidents' = IF response = "ok" THEN RowsOrEmpty(data) ELSE incidents
    /\ listLoading' = FALSE
    /\ filteredIncidents' = FilterIncidents(incidents', searchTerm,
                                            statusFilter)
    /\ view' = Render(profile, filteredIncidents', listLoading')
    /\ last' = [kind |-> IF response = "ok" THEN "incidentsOk"
                         ELSE "incidentsError"]
    /\ UNCHANGED <<searchTerm, statusFilter>>
    /\ UNCHANGED <<authVars, managerVars, profiles, signUpVars>>

\* the search input's onChange, then the filter effect and the render
SetSearchTerm(term) ==
    /\ ~listLoading
    /\ searchTerm' = term
    /\ filteredIncidents' = FilterIncidents(incidents, term, statusFilter)
    /\ view' = Render(profile, filteredIncidents', listLoading)
    /\ last' = [kind |-> "search"]
    /\ UNCHANGED <<incidents, listLoading, statusFilter, incidentFetch>>
    /\ UNCHANGED <<authVars, managerVars, profiles, signUpVars>>

\* the status select's onChange, then the filter effect and the render
SetStatusFilter(status) ==
    /\ ~listLoading
    /\ statusFilter' = status
    /\ filteredIncidents' = FilterIncidents(incidents, searchTerm, status)
    /\ view' = Render(profile, filteredIncidents', listLoading)
    /\ last' = [kind |-> "status"]
    /\ UNCHANGED <<incidents, listLoading, searchTerm, incidentFetch>>
    /\ UNCHANGED <<authVars, managerVars, profiles, signUpVars>>

\* useAuth() hands the browser a newly published profile: it renders again
ProfilePublished(p) ==
    /\ p # profile
    /\ profile' = p
    /\ view' = Render(p, filteredIncidents, listLoading)
    /\ last' = [kind |-> "published"]
    /\ UNCHANGED <<incidents, filteredIncidents, listLoading, searchTerm,
                   statusFilter, incidentFetch>>
    /\ UNCHANGED <<user, session, loading, managerVars, profiles, signUpVars>>

----------------------------------------------------------------------------
(* Specifications *)

Init ==
    /\ InitAuth
    /\ InitSignUp
    /\ InitBrowser
    /\ profiles = InitialProfiles

\* the Session Manager and the backend's notifications
Next ==
    \/ \E s \in Sessions \cup {Null} : ProbeResolve(s)
    \/ \E s \in Sessions \cup {Null} : AuthStateChange(s)
    \/ \E f \in pending, r \in Responses : LoadProfileDone(f, r)
    \/ Teardown

Spec == Init /\ [][Next]_vars

\* every backend call eventually answers
LiveSpec ==
    /\ Spec
    /\ WF_vars(\E s \in Sessions \cup {Null} : ProbeResolve(s))
    /\ WF_vars(\E f \in pending, r \in Responses : LoadProfileDone(f, r))

\* signUp calls against the backend
NextSignUp ==
    \/ \E c \in Callers, e \in Emails, n \in FullNames, p \in Phones :
          SignUpStart(c, e, n, p)
    \/ \E c \in Callers, r \in Responses : SignUpCheckDone(c, r)
    \/ \E c \in Callers, r \in Responses : SignUpRegisterDone(c, r)
    \/ \E c \in Callers, r \in Responses : SignUpUpdateDone(c, r)
    \/ \E c \in Callers, r \in Responses : SignUpInsertDone(c, r)

SpecSignUp == Init /\ [][NextSignUp]_vars

\* the emails the operations are called with when the Session Manager runs
\* beside them: one with credentials and an active profile, one with a
\* soft-deleted profile, one unknown
OpsEmails == {"b@x", "d@x", "n@x"}

\* beside the Session Manager the operations are called one after another
OpsCallers == {"c1"}

\* the four operations against the backend, the notifications they cause
\* and the Session Manager reacting to them
NextOps ==
    \/ \E c \in OpsCallers, e \in OpsEmails, n \in FullNames :
          SignUpStart(c, e, n, UndefinedStr)
    \/ \E c \in OpsCallers, r \in Responses : SignUpCheckDone(c, r)
    \/ \E c \in OpsCallers, r \in Responses : SignUpRegisterDone(c, r)
    \/ \E c \in OpsCallers, r \in Responses : SignUpUpdateDone(c, r)
    \/ \E c \in OpsCallers, r \in Responses : SignUpInsertDone(c, r)
    \/ \E c \in OpsCallers, e \in OpsEmails : SignInStart(c, e)
    \/ \E c \in OpsCallers, r \in Responses : SignInDone(c, r)
    \/ \E c \in OpsCallers : SignOutStart(c)
    \/ \E c \in OpsCallers, r \in Responses : SignOutDone(c, r)
    \/ \E c \in OpsCallers, e \in OpsEmails : ResetPasswordStart(c, e)
    \/ \E c \in OpsCallers, r \in Responses : ResetPasswordDone(c, r)
    \/ DeliverNotification
    \/ \E s \in Sessions \cup {Null} : ProbeResolve(s)
    \/ \E f \in pending, r \in Responses : LoadProfileDone(f, r)
    \/ Teardown

SpecOps == Init /\ [][NextOps]_vars

\* the Incident Browser under any profile the Session Manager publishes
NextBrowser ==
    \/ \E r \in Responses, data \in IncidentResults :
          LoadIncidentsDone(r, data)
    \/ \E t \in SearchTerms : SetSearchTerm(t)
    \/ \E f \in StatusFilters : SetStatusFilter(f)
    \/ \E p \in PublishedProfiles : ProfilePublished(p)

SpecBrowser == Init /\ [][NextBrowser]_vars

\* the filter of the Incident Browser over the lists it may have loaded
NextFilter ==
    \/ \E t \in SearchTerms : SetSearchTerm(t)
    \/ \E f \in StatusFilters : SetStatusFilter(f)

\* the state once the mounted browser has loaded its incidents
InitLoaded ==
    /\ InitAuth
    /\ InitSignUp
    /\ InitFilter
    /\ profiles = InitialProfiles

SpecFilter == InitLoaded /\ [][NextFilter]_vars

----------------------------------------------------------------------------
(* Claims about the Session Manager, checked under Spec and LiveSpec *)

\* C1: whenever loading is false and a profile is published, a session is
\* present and the profile is that of the session's user.
C1_NoStaleProfile ==
    (~loading /\ profile # Null) =>
        (session # Null /\ profile.id = session.user.id)

\* C2: once no profile fetch is pending, the published profile is the one
\* derived from the most recently accepted event (absent after a no-session
\* notification, else what that event's own fetch returned); a fetch that
\* was overtaken never decides it.
C2_LastWriteWins ==
    (pending = {} /\ expected.known) => profile = expected.profile

\* C3: from the moment a notification without a session has been processed
\* until the next event (notification or probe result) is accepted, profile,
\* user and session are absent and loading is false.
C3_SignedOutStaysAnonymous ==
    lastAccepted = "nosession" =>
        (profile = Null /\ ~loading /\ user = Null /\ session = Null)

\* C4: when the profile fetch started for the current session completes
\* with a backend error, the published profile is absent and loading is
\* false.
C4_LoadFailureClearsProfile ==
    (last.kind = "loadError" /\ last.current) =>
        (profile = Null /\ ~loading)

\* C6: if every backend call eventually answers, loading eventually becomes
\* false.
C6_LoadingResolves == <>(loading = FALSE)

\* C6 witness: the probe found a session, no notification arrived, its
\* profile fetch failed, and loading is false.
C6_Witness ==
    /\ ~loading
    /\ emitted = 0
    /\ probe = "resolved"
    /\ session # Null
    /\ last.kind = "loadError"

\* C7: while loading is true, the startup probe has not resolved or a
\* profile fetch is in flight.
C7_LoadingOnlyWhileRestoring ==
    loading => (probe = "pending" \/ pending # {})

\* C7 witness: the probe has resolved and loading is still true while a
\* notification's profile fetch is in flight.
C7_Witness ==
    /\ loading
    /\ probe = "resolved"
    /\ lastAccepted = "session"
    /\ \E f \in pending : f.id = latestFetch

\* C8: a notification emitted after the cleanup has run leaves user,
\* session, profile and loading unchanged.
C8_NoReactionAfterTeardown ==
    [][(tornDown /\ emitted' # emitted) => UNCHANGED authVars]_vars

\* C8 witness: a notification carrying a session was emitted after the
\* cleanup and was dropped, with nobody signed in.
C8_Witness ==
    /\ tornDown
    /\ last.kind = "dropped"
    /\ session = Null

----------------------------------------------------------------------------
(* Claims about the Incident Browser, checked under SpecBrowser *)

\* C5: a rendered card carries its reporter's name only when the published
\* profile is present and has role authority; for an absent or citizen
\* profile every card's reporter line is hidden.
C5_ReporterOnlyForAuthority ==
    view.kind = "list" =>
        \A i \in DOMAIN view.cards :
            view.cards[i].reporter # Hidden =>
                (profile # Null /\ profile.role = "authority")

\* C5 witness: a citizen views a list holding an incident whose record
\* carries reporter profile data, and the reporter line is hidden.
C5_Witness ==
    /\ view.kind = "list"
    /\ profile # Null
    /\ profile.role = "citizen"
    /\ \E i \in DOMAIN view.cards :
          /\ filteredIncidents[i].profiles # Null
          /\ view.cards[i].reporter = Hidden

\* C17: when the incidents query answers with an error, the incident list
\* and the filtered view are empty, the browser's loading flag is false and
\* the view is the empty-state indicator, the same view as after a query
\* that answers with zero rows.
C17_FailedFetchSwallowed ==
    [][last'.kind = "incidentsError" =>
          /\ incidents' = <<>>
          /\ filteredIncidents' = <<>>
          /\ listLoading' = FALSE
          /\ view' = [kind |-> "empty"]
          /\ view' = Render(profile,
                            FilterIncidents(RowsOrEmpty([rows |-> <<>>]),
                                            searchTerm, statusFilter),
                            FALSE)]_vars

\* the query failed while an authority's profile was published, and the
\* empty state is shown
C17_Witness ==
    /\ last.kind = "incidentsError"
    /\ profile # Null
    /\ profile.role = "authority"
    /\ incidentFetch = "done"
    /\ view.kind = "empty"

----------------------------------------------------------------------------
(* Claims about signUp, checked under SpecSignUp *)

\* C9: when the existence check of a signUp answers and the email has a
\* profile that is not soft-deleted, the call fails, with the
\* duplicate-account message whenever the query itself answered without
\* error; it has made no backend mutation, and the profiles and the
\* credentials are left as they were.
C9_DuplicateFailsWithoutMutation ==
    [][\A c \in Callers :
          ( /\ calls[c].pc = "check"
            /\ calls'[c].pc # "check"
            /\ \E r \in profiles : r.email = calls[c].email /\ ~r.is_deleted )
          => /\ calls'[c].pc = "failed"
             /\ last'.response = "ok" =>
                   calls'[c].result =
                       [ok |-> FALSE, message |-> DuplicateMessage]
             /\ calls'[c].muts = 0
             /\ profiles' = profiles
             /\ authUsers' = authUsers
             /\ nextUserId' = nextUserId]_vars

\* C9 witness: a signUp for b@x, whose profile is active, has failed with
\* the duplicate-account message.
C9_Witness ==
    \E c \in Callers :
        /\ last.kind = "signUpCheck"
        /\ last.call = c
        /\ last.response = "ok"
        /\ calls[c].email = "b@x"
        /\ calls[c].pc = "failed"
        /\ calls[c].result.message = DuplicateMessage

\* C10: when a signUp for an email with a soft-deleted profile succeeds, the
\* row it found keeps its identifier, is no longer soft-deleted, has
\* deleted_at cleared, carries the supplied full name and the supplied
\* phone (none when the phone was omitted or empty), and the table has the
\* same number of rows with the same identifiers.
C10_ReviveInPlace ==
    [][\A c \in Callers :
          (calls[c].pc = "update" /\ calls'[c].pc = "done")
          => /\ Cardinality(profiles') = Cardinality(profiles)
             /\ {r.id : r \in profiles'} = {r.id : r \in profiles}
             /\ \E r \in profiles' :
                   /\ r.id = calls[c].existingProfile.id
                   /\ r.email = calls[c].email
                   /\ r.is_deleted = FALSE
                   /\ r.deleted_at = NullStr
                   /\ r.full_name = calls[c].fullName
                   /\ r.phone = IF calls[c].phone \in {UndefinedStr, ""}
                                THEN NullStr ELSE calls[c].phone]_vars

\* C10 witness: a signUp for d@x has succeeded through the update and the
\* row with the original identifier 4 is active under the new name.
C10_Witness ==
    \E c \in Callers :
        /\ last.kind = "signUpUpdate"
        /\ last.call = c
        /\ calls[c].pc = "done"
        /\ calls[c].email = "d@x"
        /\ calls[c].phone = "555"
        /\ \E r \in profiles :
              r.id = 4 /\ ~r.is_deleted /\ r.full_name = "Nora"

C18_ProfileIdIsUserId ==
    \A c \in Callers :
        (calls[c].kind = "signUp" /\ calls[c].pc = "done"
            /\ calls[c].dataUser # Null) =>
            /\ \E r \in profiles : r.email = calls[c].email
            /\ \A r \in profiles :
                  r.email = calls[c].email => r.id = calls[c].dataUser.id

----------------------------------------------------------------------------
(* Claims about the operations beside the Session Manager, checked under
   SpecOps *)

\* the steps of signUp, signIn, signOut and resetPassword, by the kind they
\* leave in last
OperationSteps ==
    {"signUpStart", "signUpCheck", "signUpRegister", "signUpUpdate",
     "signUpInsert", "signInStart", "signInDone", "signOutStart",
     "signOutDone", "resetPasswordStart", "resetPasswordDone"}

\* the Anonymous state: no session, no user, no profile, loading over
Anonymous ==
    /\ session = Null
    /\ user = Null
    /\ profile = Null
    /\ loading = FALSE

\* C12: no step of signOut, signIn, signUp or resetPassword writes user,
\* session, profile or loading, a successful signOut included; and the step
\* in which the handler processes a notification without session ends in the
\* Anonymous state.
C12_OperationsLeavePublishedState ==
    [][/\ last'.kind \in OperationSteps => UNCHANGED authVars
       /\ (last'.kind = "notification" /\ session' = Null) => Anonymous']_vars

\* a sign-in and then a sign-out succeeded, both notifications were
\* processed, and the manager is Anonymous after having had a session
C12_Witness ==
    /\ calls["c1"].kind = "signOut"
    /\ calls["c1"].pc = "done"
    /\ emitted = 2
    /\ owed = <<>>
    /\ last.kind = "notification"
    /\ lastAccepted = "nosession"
    /\ nextFetch > 1
    /\ Anonymous

\* C13: a call that has ended has either succeeded without a value or
\* failed with one message; a step in which the backend reports an error
\* ends the call in failure, with the backend's message or, when that is
\* absent, with the operation's default message.
C13_UniformFailure ==
    [][last'.kind \in OperationSteps =>
          LET call == calls'[last'.call]
          IN /\ call.pc = "done" => call.result = Success
             /\ call.pc = "failed" =>
                   /\ DOMAIN call.result = {"ok", "message"}
                   /\ call.result.ok = FALSE
                   /\ call.result.message # ""
             /\ last'.error # Null =>
                   /\ call.pc = "failed"
                   /\ call.result.message =
                         IF last'.error.message = ""
                         THEN DefaultMessage(call.kind)
                         ELSE last'.error.message]_vars

\* signOut failed on a backend error without message and carries its
\* default message
C13_Witness ==
    /\ last.kind = "signOutDone"
    /\ last.error = [message |-> ""]
    /\ calls["c1"].pc = "failed"
    /\ calls["c1"].result = [ok |-> FALSE, message |-> SignOutDefaultMessage]

\* C19: user is absent exactly when session is absent and is otherwise the
\* user the session carries, initially and after every step; and a step
\* that changes user or session is a step of the probe handler or of the
\* notification handler.
C19_UserDerivedFromSession ==
    /\ user = UserOrNull(session)
    /\ [][/\ user' = UserOrNull(session')
          /\ (user' # user \/ session' # session) =>
                last'.kind \in {"probe", "notification"}]_vars

\* a session is published with its user, and a sign-out has succeeded
\* without changing either: its notification is still owed
C19_Witness ==
    /\ session # Null
    /\ user = session.user
    /\ last.kind = "signOutDone"
    /\ calls["c1"].pc = "done"
    /\ owed = <<Null>>

\* C20: loading starts true, and once it is false no step makes it true
\* again, whatever notifications, profile fetches, sign-ins and sign-outs
\* follow.
C20_LoadingMonotonic ==
    /\ loading = TRUE
    /\ [][loading = FALSE => loading' = FALSE]_vars

\* loading is false while the profile fetch started by a sign-in's
\* notification is still in flight
C20_Witness ==
    /\ loading = FALSE
    /\ last.kind = "notification"
    /\ lastAccepted = "session"
    /\ \E f \in pending : f.id = latestFetch

----------------------------------------------------------------------------
(* Claims about the filter of the Incident Browser, checked under
   SpecFilter *)

\* s occurs in t as a contiguous run when letters are compared without case
ContainsIgnoringCase(t, s) ==
    \E k \in 0..(Len(t) - Len(s)) :
        \A j \in 1..Len(s) : LowerChar(t[k + j]) = LowerChar(s[j])

\* the text predicate and the status predicate of the filtered view
TextPredicate(incident, s) ==
    \/ s = <<>>
    \/ ContainsIgnoringCase(incident.title, s)
    \/ ContainsIgnoringCase(incident.description, s)
    \/ /\ incident.address # NullText
       /\ ContainsIgnoringCase(incident.address, s)
StatusPredicate(incident, f) == f = "all" \/ incident.status = f

\* the subsequence of L at the positions in S, in L's order
KthOf(S, k) == CHOOSE i \in S : Cardinality({j \in S : j <= i}) = k
SubsequenceAt(L, S) == [k \in 1..Cardinality(S) |-> L[KthOf(S, k)]]

\* C14: the filtered view is the subsequence of the incident list, in the
\* list's order, of the incidents that satisfy the text predicate and the
\* status predicate; with an empty term and status "all" it is the list.
C14_FilterIsSubsequence ==
    /\ filteredIncidents =
          SubsequenceAt(incidents,
              {i \in 1..Len(incidents) :
                  /\ TextPredicate(incidents[i], searchTerm)
                  /\ StatusPredicate(incidents[i], statusFilter)})
    /\ (searchTerm = <<>> /\ statusFilter = "all") =>
          filteredIncidents = incidents

\* both filters are set, the term matches only through a difference of case,
\* and the view is the first and the last of three incidents
C14_Witness ==
    /\ searchTerm = <<"A", "B">>
    /\ statusFilter # "all"
    /\ Len(incidents) = 3
    /\ filteredIncidents = <<incidents[1], incidents[3]>>
    /\ StatusPredicate(incidents[2], statusFilter)

\* C15: the text filter followed by the status filter gives the same view
\* as the status filter followed by the text filter, for every list, term
\* and status value, "all" included.
C15_FiltersCommute ==
    /\ FilterByStatus(FilterBySearch(incidents, searchTerm), statusFilter) =
       FilterBySearch(FilterByStatus(incidents, statusFilter), searchTerm)
    /\ filteredIncidents =
       FilterBySearch(FilterByStatus(incidents, statusFilter), searchTerm)

\* each filter alone removes incidents, they remove different ones, and
\* some incident passes both
C15_Witness ==
    /\ searchTerm # <<>>
    /\ statusFilter # "all"
    /\ Len(FilterBySearch(incidents, searchTerm)) < Len(incidents)
    /\ Len(FilterByStatus(incidents, statusFilter)) < Len(incidents)
    /\ FilterBySearch(incidents, searchTerm) #
       FilterByStatus(incidents, statusFilter)
    /\ filteredIncidents # <<>>

\* the incident is one of the filtered view
InView(incident) ==
    \E k \in 1..Len(filteredIncidents) : filteredIncidents[k] = incident

\* C16: under a non-empty search term an incident without address is in the
\* filtered view only if its title or its description contains the term
\* without regard to case; the filter still completes, so such an incident
\* that passes the status filter is in the view whenever they do.
C16_AbsentAddressNeverMatches ==
    searchTerm # <<>> =>
        \A i \in 1..Len(incidents) :
            incidents[i].address = NullText =>
                LET byText ==
                        \/ ContainsIgnoringCase(incidents[i].title,
                                                searchTerm)
                        \/ ContainsIgnoringCase(incidents[i].description,
                                                searchTerm)
                IN /\ InView(incidents[i]) => byText
                   /\ (byText /\ StatusPredicate(incidents[i], statusFilter))
                         => InView(incidents[i])

\* under a term and status "all", one incident without address is in the
\* view and another is not
C16_Witness ==
    /\ searchTerm # <<>>
    /\ statusFilter = "all"
    /\ \E i, j \in 1..Len(incidents) :
          /\ incidents[i].address = NullText
          /\ incidents[j].address = NullText
          /\ InView(incidents[i])
          /\ ~InView(incidents[j])
====
